---- MODULE Spec2Model ----
(***************************************************************************)
(* Model of tools/akira_simulator.py: the front-panel simulator of AkiraOS. *)
(* One thread runs: startup (window, background, LCD surface, button state) *)
(* and then the loop  while running: handle polled events; render; tick.    *)
(***************************************************************************)
EXTENDS Integers, Sequences, FiniteSets

(* ------------------------------------------------------------------------ *)
(* Bounds of the model                                                      *)
(* ------------------------------------------------------------------------ *)

\* Largest number of events one pygame.event.get() call returns.
MaxBatch == 2

\* Number of bound keys (the first NumKeys descriptors' keys) that the
\* keyboard of specification Spec can produce, next to the unbound key K_q.
NumKeys == 3

(* ------------------------------------------------------------------------ *)
(* Program constants                                                        *)
(* ------------------------------------------------------------------------ *)

Btn(n, x, y, k) == [name |-> n, pos |-> <<x, y>>, key |-> k]

BUTTONS_Tight ==
    << Btn("PWR",   340,  90, "K_ESCAPE"),
       Btn("SET",    60,  90, "K_RETURN"),
       Btn("UP",     90, 420, "K_w"),
       Btn("DOWN",   90, 500, "K_s"),
       Btn("LEFT",   60, 450, "K_a"),
       Btn("RIGHT", 125, 460, "K_d"),
       Btn("X",     310, 420, "K_i"),
       Btn("B",     310, 500, "K_k"),
       Btn("Y",     275, 460, "K_j"),
       Btn("A",     345, 460, "K_l") >>

BUTTONS ==
    << Btn("PWR",   340,  90, "K_ESCAPE"),
       Btn("SET",    60,  90, "K_RETURN"),
       Btn("UP",     90, 420, "K_w"),
       Btn("DOWN",   90, 500, "K_s"),
       Btn("LEFT",   55, 460, "K_a"),
       Btn("RIGHT", 125, 460, "K_d"),
       Btn("X",     310, 420, "K_i"),
       Btn("B",     310, 500, "K_k"),
       Btn("Y",     275, 460, "K_j"),
       Btn("A",     345, 460, "K_l") >>

\* The literal 25 of the hit test (25**2) and of the drawn circles.
RADIUS == 25

\* (255, 180, 40) and (220, 220, 220) of the overlay palette.
ACCENT  == <<255, 180, 40>>
NEUTRAL == <<220, 220, 220>>

\* Process exit statuses: the interpreter ends with 0 after the last
\* statement and with 1 on an uncaught exception.
EXIT_OK == 0
EXIT_UNCAUGHT == 1

(* ------------------------------------------------------------------------ *)
(* Values standing for "not assigned yet"                                   *)
(* ------------------------------------------------------------------------ *)

NoPos == 0 - 1
NotExited == 0 - 1
NoEvent == [type |-> "NONE", key |-> "K_NONE"]

(* ------------------------------------------------------------------------ *)
(* Inputs: events of the windowing system and cursor positions              *)
(* ------------------------------------------------------------------------ *)

Ev(t, k) == [type |-> t, key |-> k]

KeyTypes == {"KEYDOWN", "KEYUP"}
MouseTypes == {"MOUSEBUTTONDOWN", "MOUSEBUTTONUP"}

\* Every key bound by BUTTONS, and one key bound to nothing.
BoundKeys == {BUTTONS[i].key : i \in 1..Len(BUTTONS)}
AllKeys == BoundKeys \cup {"K_q"}

\* The keys specification Spec types on.
Keys == {BUTTONS[i].key : i \in 1..NumKeys} \cup {"K_q"}

EventsOver(K) ==
    {Ev("QUIT", "K_NONE"), Ev("MOUSEMOTION", "K_NONE")}
      \cup {Ev(t, "K_NONE") : t \in MouseTypes}
      \cup {Ev(t, k) : t \in KeyTypes, k \in K}

Events == EventsOver(Keys)
AllEvents == EventsOver(AllKeys)

\* Cursor positions of Spec: the UP anchor, a point inside its hotspot
\* (squared distance 617), one on its rim (625), one outside every hotspot.
Points == {<<90, 420>>, <<106, 439>>, <<115, 420>>, <<200, 300>>}

\* Offsets from an anchor with squared length 0, 617, 612, 625, 625, 625, 626.
Offsets == {<<0, 0>>, <<16, 19>>, <<24, 6>>, <<25, 0>>, <<24, 7>>,
            <<0 - 15, 0 - 20>>, <<25, 1>>}

\* Descriptor lists the handlers are exercised on as functions of the list:
\* the compiled-in one, one whose DOWN hotspot overlaps UP's, and one whose
\* DOWN shares UP's key.
OverlapButtons == [BUTTONS EXCEPT ![4].pos = <<100, 430>>]
DupKeyButtons == [BUTTONS EXCEPT ![4].key = "K_w"]
Configs == {BUTTONS, OverlapButtons, DupKeyButtons}

AllPoints ==
    {<<200, 300>>, <<95, 425>>, <<100, 430>>}
      \cup {<<BUTTONS[i].pos[1] + o[1], BUTTONS[i].pos[2] + o[2]>> :
                i \in 1..Len(BUTTONS), o \in Offsets}

(* ------------------------------------------------------------------------ *)
(* State                                                                    *)
(* ------------------------------------------------------------------------ *)

VARIABLES
    pc,              \* position of the single thread
    btns,            \* the descriptor list the run was built with
    bg,              \* background asset: "unloaded", "loaded" or "error"
    running,         \* the loop flag
    button_pressed,  \* ButtonState, <<>> before line 42 ran
    pending,         \* events of the polled list not iterated yet
    event,           \* loop variable: the event handled last
    mx, my,          \* cursor position read by the last mouse event
    frame,           \* circle colours of the frame presented last
    exit_status,     \* NotExited while the process lives
    last_match,      \* history: per button, kind of the last event bound to it
    repeated,        \* history: the last event equals the one before it
    frames_after_quit, \* history: frames presented since running became False
    key_held         \* history: bound keys whose last key event was a key-down

vars == <<pc, btns, bg, running, button_pressed, pending, event, mx, my,
          frame, exit_status, last_match, repeated, frames_after_quit,
          key_held>>

(* ------------------------------------------------------------------------ *)
(* Pure parts of the handlers                                               *)
(* ------------------------------------------------------------------------ *)

Dist2(x, y, pos) ==
    (x - pos[1]) * (x - pos[1]) + (y - pos[2]) * (y - pos[2])

Hit_Inclusive(x, y, pos) == Dist2(x, y, pos) <= RADIUS * RADIUS

Hit_ExcludesCentre(x, y, pos) ==
    /\ 0 < Dist2(x, y, pos)
    /\ Dist2(x, y, pos) < RADIUS * RADIUS

\* line 58: (mx-bx)**2 + (my-by)**2 < 25**2
Hit(x, y, pos) == Dist2(x, y, pos) < RADIUS * RADIUS

KeyUpdate_Toggle(B, bp, e) ==
    [i \in DOMAIN bp |->
        IF e.key = B[i].key THEN ~bp[i] ELSE bp[i]]

KeyUpdate_FirstMatchOnly(B, bp, e) ==
    [i \in DOMAIN bp |->
        IF e.key = B[i].key /\ \A j \in 1..(i - 1) : e.key # B[j].key
        THEN e.type = "KEYDOWN"
        ELSE bp[i]]

KeyUpdate_Appends(B, bp, e) ==
    IF \E i \in 1..Len(B) : e.key = B[i].key
    THEN Append(bp, e.type = "KEYDOWN")
    ELSE bp

\* lines 51-53
KeyUpdate(B, bp, e) ==
    [i \in DOMAIN bp |->
        IF e.key = B[i].key THEN e.type = "KEYDOWN" ELSE bp[i]]

MouseUpdate_FirstHitWins(B, bp, x, y, e) ==
    [i \in DOMAIN bp |->
        IF Hit(x, y, B[i].pos) /\ \A j \in 1..(i - 1) : ~Hit(x, y, B[j].pos)
        THEN e.type = "MOUSEBUTTONDOWN"
        ELSE bp[i]]

MouseUpdate_ReleaseOnMiss(B, bp, x, y, e) ==
    [i \in DOMAIN bp |->
        IF Hit(x, y, B[i].pos) THEN e.type = "MOUSEBUTTONDOWN" ELSE FALSE]

MouseUpdate_UpReleasesAll(B, bp, x, y, e) ==
    [i \in DOMAIN bp |->
        IF e.type = "MOUSEBUTTONUP" THEN FALSE
        ELSE IF Hit(x, y, B[i].pos) THEN TRUE ELSE bp[i]]

MouseUpdate_RespectsHeldKey(B, bp, x, y, e) ==
    [i \in DOMAIN bp |->
        IF Hit(x, y, B[i].pos)
        THEN e.type = "MOUSEBUTTONDOWN" \/ B[i].key \in key_held
        ELSE bp[i]]

\* lines 56-59
MouseUpdate(B, bp, x, y, e) ==
    [i \in DOMAIN bp |->
        IF Hit(x, y, B[i].pos) THEN e.type = "MOUSEBUTTONDOWN" ELSE bp[i]]

RunningAfter_EscapeQuits(r, e) ==
    IF e.type = "QUIT" \/ (e.type = "KEYDOWN" /\ e.key = "K_ESCAPE")
    THEN FALSE
    ELSE r

\* lines 48-49
RunningAfter(r, e) == IF e.type = "QUIT" THEN FALSE ELSE r

Colours_Swapped(B, bp) ==
    [i \in 1..Len(B) |-> IF bp[i] THEN NEUTRAL ELSE ACCENT]

\* lines 64-66
Colours(B, bp) ==
    [i \in 1..Len(B) |-> IF bp[i] THEN ACCENT ELSE NEUTRAL]

LoopCondition_Always(r) == TRUE

\* line 46: while running
LoopCondition(r) == r

(* ------------------------------------------------------------------------ *)
(* History bookkeeping                                                      *)
(* ------------------------------------------------------------------------ *)

MatchAfter(B, lm, e, x, y) ==
    [i \in DOMAIN lm |->
        IF e.type \in KeyTypes /\ e.key = B[i].key
        THEN (IF e.type = "KEYDOWN" THEN "keydown" ELSE "keyup")
        ELSE IF e.type \in MouseTypes
                /\ (x - B[i].pos[1]) * (x - B[i].pos[1])
                     + (y - B[i].pos[2]) * (y - B[i].pos[2]) < 625
        THEN (IF e.type = "MOUSEBUTTONDOWN" THEN "mousedown" ELSE "mouseup")
        ELSE lm[i]]

HeldAfter(B, held, e) ==
    IF e.type = "KEYDOWN" /\ \E i \in 1..Len(B) : B[i].key = e.key
    THEN held \cup {e.key}
    ELSE IF e.type = "KEYUP" THEN held \ {e.key}
    ELSE held

(* ------------------------------------------------------------------------ *)
(* Actions                                                                  *)
(* ------------------------------------------------------------------------ *)

StartupFails_Swallowed ==
    /\ pc = "start"
    /\ bg' = "error"
    /\ pc' = "while"
    /\ running' = TRUE
    /\ button_pressed' = [i \in 1..Len(btns) |-> FALSE]
    /\ UNCHANGED <<btns, pending, event, mx, my, frame, exit_status,
                   last_match, repeated, frames_after_quit, key_held>>

\* line 31: pygame.image.load raises; nothing catches it.
StartupFails ==
    /\ pc = "start"
    /\ bg' = "error"
    /\ pc' = "fatal"
    /\ exit_status' = EXIT_UNCAUGHT
    /\ UNCHANGED <<btns, running, button_pressed, pending, event, mx, my,
                   frame, last_match, repeated, frames_after_quit, key_held>>

\* lines 26-45 with the image loaded.
StartupOk ==
    /\ pc = "start"
    /\ bg' = "loaded"
    /\ button_pressed' = [i \in 1..Len(btns) |-> FALSE]
    /\ running' = TRUE
    /\ pc' = "while"
    /\ UNCHANGED <<btns, pending, event, mx, my, frame, exit_status,
                   last_match, repeated, frames_after_quit, key_held>>

Poll_IgnoresFlag ==
    /\ pc = "while"
    /\ \E n \in 0..MaxBatch : pending' = n
    /\ pc' = "events"
    /\ UNCHANGED <<btns, bg, running, button_pressed, event, mx, my, frame,
                   exit_status, last_match, repeated, frames_after_quit,
                   key_held>>

\* lines 46-47: the loop test passes and the pending events are fetched.
Poll ==
    /\ pc = "while"
    /\ LoopCondition(running)
    /\ \E n \in 0..MaxBatch : pending' = n
    /\ pc' = "events"
    /\ UNCHANGED <<btns, bg, running, button_pressed, event, mx, my, frame,
                   exit_status, last_match, repeated, frames_after_quit,
                   key_held>>

\* lines 47-59: one pass of the for body, on an event of E, the cursor in P.
HandleEventFrom(E, P) ==
    /\ pc = "events"
    /\ pending > 0
    /\ \E e \in E :
         /\ event' = e
         /\ repeated' = (e = event)
         /\ running' = RunningAfter(running, e)
         /\ key_held' = HeldAfter(btns, key_held, e)
         /\ IF e.type = "QUIT"
            THEN UNCHANGED <<button_pressed, mx, my, last_match>>
            ELSE IF e.type = "KEYDOWN" \/ e.type = "KEYUP"
            THEN /\ button_pressed' = KeyUpdate(btns, button_pressed, e)
                 /\ last_match' = MatchAfter(btns, last_match, e, mx, my)
                 /\ UNCHANGED <<mx, my>>
            ELSE IF e.type = "MOUSEBUTTONDOWN" \/ e.type = "MOUSEBUTTONUP"
            THEN \E p \in P :
                    /\ mx' = p[1]
                    /\ my' = p[2]
                    /\ button_pressed' =
                          MouseUpdate(btns, button_pressed, p[1], p[2], e)
                    /\ last_match' = MatchAfter(btns, last_match, e, p[1], p[2])
            ELSE UNCHANGED <<button_pressed, mx, my, last_match>>
    /\ pending' = pending - 1
    /\ UNCHANGED <<pc, btns, bg, frame, exit_status, frames_after_quit>>

HandleEvent == HandleEventFrom(Events, Points)

Render_Early ==
    /\ pc = "events"
    /\ frame' = Colours(btns, button_pressed)
    /\ frames_after_quit' =
          IF running THEN 0
          ELSE IF frames_after_quit < 2 THEN frames_after_quit + 1 ELSE 2
    /\ pc' = "tick"
    /\ UNCHANGED <<btns, bg, running, button_pressed, pending, event, mx, my,
                   exit_status, last_match, repeated, key_held>>

\* lines 61-69: full redraw and flip, once the for loop is exhausted.
Render ==
    /\ pc = "events"
    /\ pending = 0
    /\ frame' = Colours(btns, button_pressed)
    /\ frames_after_quit' =
          IF running THEN 0
          ELSE IF frames_after_quit < 2 THEN frames_after_quit + 1 ELSE 2
    /\ pc' = "tick"
    /\ UNCHANGED <<btns, bg, running, button_pressed, pending, event, mx, my,
                   exit_status, last_match, repeated, key_held>>

Tick_ClearsState ==
    /\ pc = "tick"
    /\ pc' = "while"
    /\ button_pressed' = [i \in DOMAIN button_pressed |-> FALSE]
    /\ UNCHANGED <<btns, bg, running, pending, event, mx, my, frame,
                   exit_status, last_match, repeated, frames_after_quit,
                   key_held>>

\* line 70: clock.tick(60)
Tick ==
    /\ pc = "tick"
    /\ pc' = "while"
    /\ UNCHANGED <<btns, bg, running, button_pressed, pending, event, mx, my,
                   frame, exit_status, last_match, repeated, frames_after_quit,
                   key_held>>

\* lines 46, 71: the loop test fails, pygame.quit(), end of script.
Quit ==
    /\ pc = "while"
    /\ ~LoopCondition(running)
    /\ pc' = "done"
    /\ exit_status' = EXIT_OK
    /\ UNCHANGED <<btns, bg, running, button_pressed, pending, event, mx, my,
                   frame, last_match, repeated, frames_after_quit, key_held>>

(* ------------------------------------------------------------------------ *)
(* Specifications                                                           *)
(* ------------------------------------------------------------------------ *)

Fresh ==
    /\ event = NoEvent
    /\ mx = NoPos
    /\ my = NoPos
    /\ frame = <<>>
    /\ exit_status = NotExited
    /\ last_match = [i \in 1..Len(btns) |-> "none"]
    /\ repeated = FALSE
    /\ frames_after_quit = 0
    /\ key_held = {}

\* The process at its first statement; running and button_pressed are not
\* bound yet (FALSE and <<>> stand for that).
Init ==
    /\ pc = "start"
    /\ btns = BUTTONS
    /\ bg = "unloaded"
    /\ running = FALSE
    /\ button_pressed = <<>>
    /\ pending = 0
    /\ Fresh

Next ==
    \/ StartupOk
    \/ StartupFails
    \/ Poll
    \/ HandleEvent
    \/ Render
    \/ Tick
    \/ Quit

Spec == Init /\ [][Next]_vars

\* The one thread always executes its next statement: the for loop is over
\* a finite list and clock.tick returns.
FairSpec == Spec /\ WF_vars(Next)

\* The handlers as functions of (descriptor list, ButtonState, event, cursor):
\* the thread stands in the for loop with one event to handle, any
\* ButtonState and any descriptor list of Configs.
InitHandler ==
    /\ pc = "events"
    /\ btns \in Configs
    /\ bg = "loaded"
    /\ running = TRUE
    /\ button_pressed \in [1..Len(BUTTONS) -> BOOLEAN]
    /\ pending = 1
    /\ Fresh

HandleAnyEvent ==
    /\ event = NoEvent
    /\ HandleEventFrom(AllEvents, AllPoints)

NextHandler == HandleAnyEvent

SpecHandler == InitHandler /\ [][NextHandler]_vars

(* ------------------------------------------------------------------------ *)
(* Properties                                                               *)
(* ------------------------------------------------------------------------ *)

\* A step that is one pass of the for body (it consumes one polled event).
HandledStep == pc = "events" /\ pending' = pending - 1

\* Squared distance from the cursor read last to the anchor of button i.
CursorD2(i) ==
    (mx - btns[i].pos[1]) * (mx - btns[i].pos[1])
      + (my - btns[i].pos[2]) * (my - btns[i].pos[2])

\* C1 as stated: once the QUIT event has been handled no frame is drawn or
\* presented any more, so the count of frames presented since running became
\* False stays 0.
C1_NoFrameAfterQuit == frames_after_quit = 0

\* C1 as amended: after QUIT has been handled the iteration in progress still
\* renders and presents its frame, exactly one, whatever else the batch holds;
\* then the loop ends, nothing is polled or drawn any more, and the process
\* exits with status 0.
C1_OneLastFrameThenExit0 ==
    /\ frames_after_quit <= 1
    /\ (pc \in {"while", "tick"} /\ ~running) => frames_after_quit = 1
    /\ pc = "done" =>
          /\ exit_status = 0
          /\ ~running
          /\ pending = 0
          /\ frames_after_quit = 1

C1_Witness ==
    /\ pc = "done"
    /\ exit_status = 0
    /\ frames_after_quit = 1
    /\ event.type = "KEYDOWN"

\* C2: while no mouse event has been handled, a button whose key has been
\* pressed or released is pressed exactly when the last event for its key was
\* a key-down; the same event twice in a row gives what one gives.
C2_KeyStateIsLastKeyEvent ==
    mx = NoPos =>
      \A i \in DOMAIN button_pressed :
        /\ last_match[i] = "keydown" => button_pressed[i]
        /\ last_match[i] \in {"keyup", "none"} => ~button_pressed[i]
        /\ (repeated /\ event.type \in KeyTypes /\ event.key = btns[i].key)
              => (button_pressed[i] <=> event.type = "KEYDOWN")

C2_Witness ==
    /\ mx = NoPos
    /\ repeated
    /\ event = Ev("KEYDOWN", "K_w")
    /\ button_pressed[3]

\* C3: a mouse event registers on a button if and only if the squared distance
\* from the cursor to its anchor is below 625: the button then takes the
\* event's polarity, and at 625 or more it keeps its state.
C3_HitIffBelow625 ==
    [][(HandledStep /\ event'.type \in MouseTypes) =>
          \A i \in DOMAIN button_pressed :
             LET d2 == (mx' - btns[i].pos[1]) * (mx' - btns[i].pos[1])
                         + (my' - btns[i].pos[2]) * (my' - btns[i].pos[2])
             IN  /\ d2 < 625 =>
                      (button_pressed'[i] <=> event'.type = "MOUSEBUTTONDOWN")
                 /\ d2 >= 625 => (button_pressed'[i] <=> button_pressed[i])]_vars

\* Mouse-down on the rim of UP (115, 420), squared distance 625: not pressed.
C3_Witness ==
    /\ btns = BUTTONS
    /\ event.type = "MOUSEBUTTONDOWN"
    /\ mx = 115
    /\ my = 420
    /\ CursorD2(3) = 625
    /\ ~button_pressed[3]

\* C4: after a mouse-down read with the cursor on a button's anchor, that
\* button is pressed, whatever the state before.
C4_AnchorClickPresses ==
    \A i \in DOMAIN button_pressed :
       (event.type = "MOUSEBUTTONDOWN" /\ <<mx, my>> = btns[i].pos)
          => button_pressed[i]

C4_Witness ==
    /\ btns = BUTTONS
    /\ event.type = "MOUSEBUTTONDOWN"
    /\ <<mx, my>> = <<345, 460>>
    /\ button_pressed[10]
    /\ ~button_pressed[9]

\* C5: after a mouse-down read with the cursor strictly inside two hotspots,
\* both buttons are pressed.
C5_OverlapPressesAll ==
    event.type = "MOUSEBUTTONDOWN" =>
      \A i, j \in DOMAIN button_pressed :
         (i # j /\ CursorD2(i) < 625 /\ CursorD2(j) < 625)
            => (button_pressed[i] /\ button_pressed[j])

C5_Witness ==
    /\ event.type = "MOUSEBUTTONDOWN"
    /\ CursorD2(3) < 625
    /\ CursorD2(4) < 625
    /\ button_pressed[3]
    /\ button_pressed[4]

C7_OnlyQuitStops ==
    [][/\ (running /\ ~running') => (HandledStep /\ event'.type = "QUIT")
       /\ (pc # "start" /\ ~running) => ~running'
       /\ pc = "done" => pc' = "done"]_vars

C7_Witness ==
    /\ running
    /\ event = Ev("KEYDOWN", "K_ESCAPE")
    /\ button_pressed[1]
    /\ mx # NoPos

\* C8: when the background failed to load the process is in its fatal state
\* with a non-zero exit status; the loop was not entered: nothing was polled,
\* no button state exists or changed and no frame was presented.
C8_LoadFailureIsFatal ==
    bg = "error" =>
      /\ pc = "fatal"
      /\ exit_status # NotExited
      /\ exit_status # 0
      /\ button_pressed = <<>>
      /\ pending = 0
      /\ event = NoEvent
      /\ frame = <<>>

C8_Witness ==
    /\ bg = "error"
    /\ pc = "fatal"
    /\ exit_status = 1

\* C9: a key event gives every button bound to its key the value (event is
\* key-down), also when several share the key, and leaves the other buttons
\* and the running flag as they were.
C9_KeyEventFrame ==
    [][(HandledStep /\ event'.type \in KeyTypes) =>
          /\ \A i \in DOMAIN button_pressed :
                /\ btns[i].key = event'.key =>
                      (button_pressed'[i] <=> event'.type = "KEYDOWN")
                /\ btns[i].key # event'.key =>
                      (button_pressed'[i] <=> button_pressed[i])
          /\ running' = running]_vars

\* DOWN shares K_w with UP: one key-down pressed both, SET stayed pressed and
\* PWR stayed unpressed.
C9_Witness ==
    /\ btns[3].key = btns[4].key
    /\ event = Ev("KEYDOWN", "K_w")
    /\ button_pressed[3]
    /\ button_pressed[4]
    /\ button_pressed[2]
    /\ ~button_pressed[1]
    /\ running

\* An event that matches nothing: of another type than QUIT, key or mouse, a
\* key event for a key bound to no button, a mouse event outside every hotspot.
MatchesNothing(e, x, y) ==
    \/ e.type \notin ({"QUIT"} \cup KeyTypes \cup MouseTypes)
    \/ e.type \in KeyTypes /\ \A i \in 1..Len(btns) : btns[i].key # e.key
    \/ /\ e.type \in MouseTypes
       /\ \A i \in 1..Len(btns) :
             (x - btns[i].pos[1]) * (x - btns[i].pos[1])
               + (y - btns[i].pos[2]) * (y - btns[i].pos[2]) >= 625

\* C10: handling an event that matches nothing leaves every ButtonState entry
\* and the running flag unchanged and the loop goes on (no error state).
C10_UnmatchedEventIsNoOp ==
    [][(HandledStep /\ MatchesNothing(event', mx', my')) =>
          /\ button_pressed' = button_pressed
          /\ running' = running
          /\ pc' = "events"
          /\ exit_status' = NotExited]_vars

\* A mouse-up far from every hotspot, UP still pressed.
C10_Witness ==
    /\ event.type = "MOUSEBUTTONUP"
    /\ <<mx, my>> = <<200, 300>>
    /\ button_pressed[3]
    /\ running

\* C11: once the loop has been entered, under any events, ButtonState has
\* exactly as many entries as there are descriptors, 10, indexed like them,
\* and no write of the handlers fell outside (no IndexError ended the run).
C11_StateMatchesDescriptors ==
    pc \notin {"start", "fatal"} =>
      /\ Len(btns) = 10
      /\ Len(button_pressed) = 10
      /\ DOMAIN button_pressed = DOMAIN btns
      /\ exit_status # 1

C11_Witness ==
    /\ pc = "done"
    /\ Len(button_pressed) = 10
    /\ button_pressed[1]
    /\ button_pressed[2]
    /\ button_pressed[3]
    /\ mx # NoPos

\* C12: an iteration goes poll, handle every polled event, render and present
\* one frame, wait, and back to the loop test: the frame is drawn only when
\* no polled event is left, the frame changes in no other step, and the wait
\* that follows the render handles no event and draws nothing.
C12_IterationOrder ==
    [][/\ (pc = "while" /\ pc' # "while") => pc' \in {"events", "done"}
       /\ (pc = "events" /\ pc' = "events") =>
             (pending > 0 /\ pending' = pending - 1 /\ frame' = frame)
       /\ (pc = "events" /\ pc' # "events") => (pc' = "tick" /\ pending = 0)
       /\ pc = "tick" =>
             /\ pc' = "while"
             /\ frame' = frame
             /\ event' = event
             /\ pending' = pending
             /\ button_pressed' = button_pressed
       /\ frame' # frame => (pc = "events" /\ pc' = "tick")]_vars

\* A frame drawn after a batch of two events (the same key-down twice).
C12_Witness ==
    /\ pc = "tick"
    /\ pending = 0
    /\ repeated
    /\ event = Ev("KEYDOWN", "K_RETURN")
    /\ frame[2] = <<255, 180, 40>>

\* C13: every ButtonState entry is False when the loop is first entered, and
\* after that only the handling of an event changes ButtonState: the render,
\* the wait, the loop test and the poll leave it as it is.
C13_OnlyEventsMutateState ==
    [][/\ (pc = "start" /\ pc' = "while") =>
             \A i \in 1..Len(btns) : button_pressed'[i] = FALSE
       /\ (pc # "start" /\ ~HandledStep) => button_pressed' = button_pressed
       /\ (pc = "events" /\ pc' = "tick") => button_pressed' = button_pressed
       /\ pc = "tick" => button_pressed' = button_pressed]_vars

\* UP pressed by the mouse, drawn, and still pressed after the wait.
C13_Witness ==
    /\ pc = "while"
    /\ running
    /\ last_match[3] = "mousedown"
    /\ button_pressed[3]
    /\ frame[3] = <<255, 180, 40>>

\* C14: once running is False the events left in the polled batch are still
\* handled one by one, the event queue is not polled again, and the process
\* eventually reaches its end.
C14_QuitEndsThisIteration ==
    /\ [][(pc # "start" /\ ~running) =>
             /\ ~(pc = "while" /\ pc' = "events")
             /\ (pc = "events" /\ pending > 0) =>
                   (pc' = "events" /\ pending' = pending - 1)]_vars
    /\ ((pc \in {"events", "tick", "while"} /\ ~running) ~> (pc = "done"))

\* QUIT came first in its batch; the mouse-down behind it was still handled.
C14_Witness ==
    /\ pc = "done"
    /\ event.type = "MOUSEBUTTONDOWN"
    /\ button_pressed[3]
    /\ frame[3] = <<255, 180, 40>>
    /\ frames_after_quit = 1

\* C15: the compiled-in anchors are pairwise more than 50 pixels apart
\* (squared distance above 2500), and with them a mouse event has the cursor
\* inside at most one hotspot and changes at most one ButtonState entry.
C15_AtMostOneButtonPerClick ==
    [][/\ \A i, j \in 1..Len(BUTTONS) :
             i # j =>
               (BUTTONS[i].pos[1] - BUTTONS[j].pos[1])
                   * (BUTTONS[i].pos[1] - BUTTONS[j].pos[1])
                 + (BUTTONS[i].pos[2] - BUTTONS[j].pos[2])
                   * (BUTTONS[i].pos[2] - BUTTONS[j].pos[2]) > 2500
       /\ (HandledStep /\ event'.type \in MouseTypes /\ btns = BUTTONS) =>
             /\ Cardinality({i \in DOMAIN button_pressed :
                               button_pressed'[i] # button_pressed[i]}) <= 1
             /\ Cardinality({i \in 1..Len(btns) :
                   (mx' - btns[i].pos[1]) * (mx' - btns[i].pos[1])
                     + (my' - btns[i].pos[2]) * (my' - btns[i].pos[2])
                     < 625}) <= 1]_vars

\* Mouse-up on LEFT's anchor: LEFT released, its neighbours UP and RIGHT kept.
C15_Witness ==
    /\ btns = BUTTONS
    /\ event.type = "MOUSEBUTTONUP"
    /\ <<mx, my>> = <<55, 460>>
    /\ ~button_pressed[5]
    /\ button_pressed[3]
    /\ button_pressed[6]

\* C16: a pressed button becomes unpressed only by a mouse-up read inside its
\* hotspot or by a key-up of its bound key; a mouse-up read outside the
\* hotspot leaves it pressed.
C16_PressedUntilMatchingRelease ==
    [][\A i \in DOMAIN button_pressed :
          (button_pressed[i] /\ ~button_pressed'[i]) =>
             /\ HandledStep
             /\ \/ /\ event'.type = "MOUSEBUTTONUP"
                   /\ (mx' - btns[i].pos[1]) * (mx' - btns[i].pos[1])
                        + (my' - btns[i].pos[2]) * (my' - btns[i].pos[2])
                        < 625
                \/ /\ event'.type = "KEYUP"
                   /\ event'.key = btns[i].key]_vars

\* UP pressed by a mouse-down inside, the mouse-up read outside: UP is still
\* pressed with the mouse button up and no bound key held.
C16_Witness ==
    /\ last_match[3] = "mousedown"
    /\ event.type = "MOUSEBUTTONUP"
    /\ CursorD2(3) >= 625
    /\ button_pressed[3]
    /\ key_held = {}

\* C17: whatever the interleaving of key and mouse events, a button is pressed
\* exactly when the last event bound to it, from either device, was a down
\* event.
C17_LastWriterWins ==
    \A i \in DOMAIN button_pressed :
       button_pressed[i] <=> last_match[i] \in {"keydown", "mousedown"}

\* K_w is held down and a mouse-up inside UP's hotspot has unpressed UP.
C17_Witness ==
    /\ "K_w" \in key_held
    /\ event.type = "MOUSEBUTTONUP"
    /\ CursorD2(3) < 625
    /\ last_match[3] = "mouseup"
    /\ ~button_pressed[3]

====
